---- MODULE Spec2Model ----
(***************************************************************************)
(* TrOCRService (src/trocr_service.py): the confidence heuristic, the      *)
(* regex field extractor, the result assembly and the load/extract         *)
(* life cycle of one service object.                                       *)
(*                                                                         *)
(* Strings are sequences of one-character strings.  Python floats are      *)
(* IEEE-754 doubles; a double x is the record [t |-> t, e |-> e] with      *)
(* x = t/10 + e * 2^-56 / 10 exactly, and addition rounds to the nearest   *)
(* double, ties to even, as the hardware does.                             *)
(***************************************************************************)
EXTENDS Integers, Sequences, FiniteSets, TLC

\* ------------------------------------------------------------------------
\* One TrOCRService and its caller
\* ------------------------------------------------------------------------
VARIABLES
    processor,       \* self.processor
    model,           \* self.model
    last,            \* the method called last: "__init__", "load_model", "extract"
    loaded,          \* what the last load_model returned
    engine,          \* what the image pipeline does if the last extract call runs it
    outcome,         \* the dict extract_text_from_image returned in that call
    result           \* what the last extract call returned, or that it raised


\* ------------------------------------------------------------------------
\* Characters and the str methods the code calls
\* ------------------------------------------------------------------------
UpperChars ==
    <<"A","B","C","D","E","F","G","H","I","J","K","L","M",
      "N","O","P","Q","R","S","T","U","V","W","X","Y","Z">>

LowerChars ==
    <<"a","b","c","d","e","f","g","h","i","j","k","l","m",
      "n","o","p","q","r","s","t","u","v","w","x","y","z">>

Range(s) == {s[i] : i \in DOMAIN s}

Upper == Range(UpperChars)

Letters == Range(LowerChars)

Digits == {"0","1","2","3","4","5","6","7","8","9"}

\* str.isspace / regex \s, on the ASCII characters the texts use
Whitespace == {" ", "\t", "\n"}

\* regex \w after case folding
WordChars == Letters \cup Digits \cup {"_"}

\* str.lower() of one character; also the case folding of re.IGNORECASE
lower(c) ==
    IF c \in Upper
    THEN LowerChars[CHOOSE i \in DOMAIN UpperChars : UpperChars[i] = c]
    ELSE c

lowerStr(s) == [i \in DOMAIN s |-> lower(s[i])]

isdigit(c) == c \in Digits

isupper(c) == c \in Upper

\* str.strip(): drop leading and trailing whitespace
strip(s) ==
    LET keep == {i \in DOMAIN s : s[i] \notin Whitespace}
    IN  IF keep = {} THEN <<>>
        ELSE LET a == CHOOSE i \in keep : \A j \in keep : i <= j
                 b == CHOOSE i \in keep : \A j \in keep : j <= i
             IN  SubSeq(s, a, b)

\* str.split() with no argument: the maximal runs of non-whitespace, in order
split(s) ==
    LET starts == {i \in DOMAIN s : s[i] \notin Whitespace
                                    /\ (i = 1 \/ s[i - 1] \in Whitespace)}
        ends   == {i \in DOMAIN s : s[i] \notin Whitespace
                                    /\ (i = Len(s) \/ s[i + 1] \in Whitespace)}
        nth(S, k) == CHOOSE a \in S : Cardinality({b \in S : b < a}) = k - 1
    IN  [k \in 1..Cardinality(starts) |-> SubSeq(s, nth(starts, k), nth(ends, k))]

\* the Python test `needle in hay` on strings
contains(hay, needle) ==
    \E i \in 1..(Len(hay) - Len(needle) + 1) :
        SubSeq(hay, i, i + Len(needle) - 1) = needle

\* str.startswith
startswith(s, prefix) ==
    Len(s) >= Len(prefix) /\ SubSeq(s, 1, Len(prefix)) = prefix

\* str.zfill(width): pad with "0" on the left up to width
RECURSIVE zfill(_, _)
zfill(s, width) == IF Len(s) >= width THEN s ELSE zfill(<<"0">> \o s, width)

\* ------------------------------------------------------------------------
\* Python float arithmetic (IEEE-754 binary64, round to nearest, ties to even)
\* ------------------------------------------------------------------------
\* 2^56 modulo the spacing u of the doubles, u counted in units of 2^-56/10
TwoTo56Mod(u) ==
    CASE u = 10 -> 6 [] u = 20 -> 16 [] u = 40 -> 16 [] u = 80 -> 16
      [] u = 160 -> 96 [] u = 320 -> 256

\* spacing of the doubles around t/10 + e*2^-56/10, in units of 2^-56/10
Ulp(t, e) ==
    IF t > 10 \/ (t = 10 /\ e >= 0) THEN 160
    ELSE IF t > 5 \/ (t = 5 /\ e >= 0) THEN 80
    ELSE IF t >= 3 THEN 40
    ELSE IF t >= 2 THEN 20
    ELSE 10

\* t/10 + e*2^-56/10 lies r units above a double, the doubles being u apart:
\* down when nearer, up when nearer, and on a tie to the even one
RoundBy(t, e, u, r) ==
    IF r = 0 THEN [t |-> t, e |-> e]
    ELSE IF 2 * r < u THEN [t |-> t, e |-> e - r]
    ELSE IF 2 * r > u THEN [t |-> t, e |-> e + u - r]
    ELSE IF ((t * TwoTo56Mod(2 * u) + e - r) % (2 * u)) \div u = 0
    THEN [t |-> t, e |-> e - r]
    ELSE [t |-> t, e |-> e + u - r]

RoundAt(t, e, u) == RoundBy(t, e, u, (t * TwoTo56Mod(u) + e) % u)

\* the double nearest to the real number t/10 + e*2^-56/10
Round(t, e) ==
    IF t = 0 /\ e = 0 THEN [t |-> 0, e |-> 0]
    ELSE RoundAt(t, e, Ulp(t, e))

\* the float literal with decimal value t/10 (0.5 is Float(5), 0.1 is Float(1))
Float(t) == Round(t, 0)

\* x + y and x - y on floats
FloatAdd(x, y) == Round(x.t + y.t, x.e + y.e)

FloatSub(x, y) == Round(x.t - y.t, x.e - y.e)

\* x < y on floats
FloatLt(x, y) == x.t < y.t \/ (x.t = y.t /\ x.e < y.e)

FloatLe(x, y) == x = y \/ FloatLt(x, y)

\* the builtins min(a, b) and max(a, b): the first argument unless the second beats it
min(a, b) == IF FloatLt(b, a) THEN b ELSE a

max(a, b) == IF FloatLt(a, b) THEN b ELSE a

\* ------------------------------------------------------------------------
\* TrOCRService._calculate_confidence
\* ------------------------------------------------------------------------
s_marriage == <<"m","a","r","r","i","a","g","e">>

s_license == <<"l","i","c","e","n","s","e">>

s_application == <<"a","p","p","l","i","c","a","t","i","o","n">>

s_affidavit == <<"a","f","f","i","d","a","v","i","t">>

Keywords == <<s_marriage, s_license, s_application, s_affidavit>>

\* `if test: confidence += delta` and `if test: confidence -= delta`
increase(test, confidence, delta) ==
    IF test THEN FloatAdd(confidence, delta) ELSE confidence

decrease(test, confidence, delta) ==
    IF test THEN FloatSub(confidence, delta) ELSE confidence

\* confidence_sum with the repetition test written `len(text.split()) > 0`
confidence_sum_any_token_count(text) ==
    LET c0 == Float(5)
        c1 == increase(Len(text) > 10, c0, Float(1))
        c2 == increase(Len(text) > 50, c1, Float(1))
        c3 == increase(\E k \in DOMAIN Keywords : contains(lowerStr(text), Keywords[k]),
                       c2, Float(2))
        c4 == increase(\E i \in DOMAIN text : isdigit(text[i]), c3, Float(1))
        c5 == increase(\E i \in DOMAIN text : isupper(text[i]), c4, Float(1))
        c6 == decrease(Len(text) < 5, c5, Float(2))
        c7 == decrease(Cardinality(Range(split(text))) < 3 /\ Len(split(text)) > 0,
                       c6, Float(1))
    IN  c7

\* the value of `confidence` just before the return statement clamps it
confidence_sum(text) ==
    LET c0 == Float(5)
        c1 == increase(Len(text) > 10, c0, Float(1))
        c2 == increase(Len(text) > 50, c1, Float(1))
        c3 == increase(\E k \in DOMAIN Keywords : contains(lowerStr(text), Keywords[k]),
                       c2, Float(2))
        c4 == increase(\E i \in DOMAIN text : isdigit(text[i]), c3, Float(1))
        c5 == increase(\E i \in DOMAIN text : isupper(text[i]), c4, Float(1))
        c6 == decrease(Len(text) < 5, c5, Float(2))
        c7 == decrease(Cardinality(Range(split(text))) < 3 /\ Len(split(text)) > 5,
                       c6, Float(1))
    IN  c7

\* _calculate_confidence returning `confidence` without min(1.0, max(0.0, ...))
calculate_confidence_no_clamp(text) ==
    IF text = <<>> \/ Len(strip(text)) = 0 THEN Float(0)
    ELSE confidence_sum(text)

calculate_confidence(text) ==
    IF text = <<>> \/ Len(strip(text)) = 0 THEN Float(0)
    ELSE min(Float(10), max(Float(0), confidence_sum(text)))

\* ------------------------------------------------------------------------
\* The `re` module: patterns as syntax trees, matched by backtracking in the
\* order Python tries the alternatives (re.IGNORECASE throughout)
\* ------------------------------------------------------------------------
\* a character class, given case-folded
Cls(S) == [k |-> "cls", cs |-> S]

\* one literal character
Ch(c) == Cls({lower(c)})

\* concatenation and alternation (first alternative first)
Cat(ns) == [k |-> "cat", sub |-> ns]

Alt(ns) == [k |-> "alt", sub |-> ns]

\* a literal string
Lit(s) == [k |-> "lit", s |-> lowerStr(s)]

\* n{lo,hi}, greedy or lazy; hi < 0 is "no upper limit"
Rep(n, lo, hi, greedy) == [k |-> "rep", n |-> n, lo |-> lo, hi |-> hi, greedy |-> greedy]

Star(n) == Rep(n, 0, -1, TRUE)

Plus(n) == Rep(n, 1, -1, TRUE)

PlusLazy(n) == Rep(n, 1, -1, FALSE)

Opt(n) == Rep(n, 0, 1, TRUE)

\* capturing group number g
Grp(g, n) == [k |-> "grp", g |-> g, n |-> n]

\* \b
WordBoundary == [k |-> "wb"]

\* \s, \d
ReSpace == Cls(Whitespace)

ReDigit == Cls(Digits)

\* Python's None; no string equals it (a string's elements are single characters)
None == <<"None">>

NoGroups == <<<<0, 0>>, <<0, 0>>, <<0, 0>>>>

NoMatch == [ok |-> FALSE, start |-> 0, end |-> 0, caps |-> NoGroups]

\* \b holds at pos when exactly one of the characters around pos is a word character
AtWordBoundary(text, pos) ==
    LET before == pos > 1 /\ lower(text[pos - 1]) \in WordChars
        after  == pos <= Len(text) /\ lower(text[pos]) \in WordChars
    IN  before # after

\* how many characters of class S stand at pos, pos+1, ..., at most `most` of
\* them when most >= 0
RECURSIVE RunLength(_, _, _, _)
RunLength(text, pos, S, most) ==
    IF most = 0 \/ pos > Len(text) THEN 0
    ELSE IF lower(text[pos]) \notin S THEN 0
    ELSE 1 + RunLength(text, pos + 1, S, IF most > 0 THEN most - 1 ELSE most)

\* match the nodes of `todo`, in order, against text from pos; the first success
\* in backtracking order, with the groups it captured.  A repeated character
\* class takes k characters of its run, k tried from the longest down (greedy)
\* or from the shortest up (lazy).
RECURSIVE MatchAt(_, _, _, _)
RECURSIVE TryCounts(_, _, _, _, _, _, _)
TryCounts(text, rest, pos, caps, k, final, step) ==
    LET m == MatchAt(text, rest, pos + k, caps)
    IN  IF m.ok \/ k = final THEN m
        ELSE TryCounts(text, rest, pos, caps, k + step, final, step)

MatchAt(text, todo, pos, caps) ==
    IF todo = <<>> THEN [ok |-> TRUE, start |-> 0, end |-> pos, caps |-> caps]
    ELSE
    LET h    == Head(todo)
        rest == Tail(todo)
    IN  CASE h.k = "cls" ->
               IF pos <= Len(text) /\ lower(text[pos]) \in h.cs
               THEN MatchAt(text, rest, pos + 1, caps)
               ELSE NoMatch
          [] h.k = "lit" ->
               IF pos + Len(h.s) - 1 <= Len(text)
                  /\ lowerStr(SubSeq(text, pos, pos + Len(h.s) - 1)) = h.s
               THEN MatchAt(text, rest, pos + Len(h.s), caps)
               ELSE NoMatch
          [] h.k = "cat" -> MatchAt(text, h.sub \o rest, pos, caps)
          [] h.k = "alt" ->
               IF h.sub = <<>> THEN NoMatch
               ELSE LET first == MatchAt(text, <<Head(h.sub)>> \o rest, pos, caps)
                    IN  IF first.ok THEN first
                        ELSE MatchAt(text, <<Alt(Tail(h.sub))>> \o rest, pos, caps)
          [] h.k = "rep" /\ h.n.k = "cls" ->
               LET run == RunLength(text, pos, h.n.cs, h.hi)
               IN  IF run < h.lo THEN NoMatch
                   ELSE IF h.greedy
                        THEN TryCounts(text, rest, pos, caps, run, h.lo, -1)
                        ELSE TryCounts(text, rest, pos, caps, h.lo, run, 1)
          [] h.k = "rep" /\ h.n.k # "cls" ->
               LET fewer == [h EXCEPT !.lo = IF @ > 0 THEN @ - 1 ELSE 0,
                                      !.hi = IF @ > 0 THEN @ - 1 ELSE @]
               IN  IF h.lo > 0 THEN MatchAt(text, <<h.n, fewer>> \o rest, pos, caps)
                   ELSE IF h.hi = 0 THEN MatchAt(text, rest, pos, caps)
                   ELSE LET more == MatchAt(text, <<h.n, fewer>> \o rest, pos, caps)
                            stop == MatchAt(text, rest, pos, caps)
                        IN  IF h.greedy
                            THEN (IF more.ok THEN more ELSE stop)
                            ELSE (IF stop.ok THEN stop ELSE more)
          [] h.k = "grp" ->
               MatchAt(text, <<h.n, [k |-> "end", g |-> h.g, from |-> pos]>> \o rest,
                       pos, caps)
          [] h.k = "end" ->
               MatchAt(text, rest, pos, [caps EXCEPT ![h.g] = <<h.from, pos>>])
          [] h.k = "wb" ->
               IF AtWordBoundary(text, pos) THEN MatchAt(text, rest, pos, caps)
               ELSE NoMatch

\* the match of the whole pattern that starts at position p
matchFrom(re, text, p) == [MatchAt(text, <<re>>, p, NoGroups) EXCEPT !.start = p]

\* the match at the least of the positions `starts`, if there is one
leftmost(re, text, starts) ==
    IF starts = {} THEN NoMatch
    ELSE matchFrom(re, text, CHOOSE a \in starts : \A b \in starts : a <= b)

\* the leftmost match starting at or after position `from`
searchFrom(re, text, from) ==
    leftmost(re, text,
             {p \in from..(Len(text) + 1) : MatchAt(text, <<re>>, p, NoGroups).ok})

\* re.search(pattern, text, re.IGNORECASE)
search(re, text) == searchFrom(re, text, 1)

\* match.group(g): None for a group that took no part in the match
group(text, m, g) ==
    IF m.caps[g][1] = 0 THEN None
    ELSE SubSeq(text, m.caps[g][1], m.caps[g][2] - 1)

\* re.findall for a pattern with one group: group 1 of the successive
\* non-overlapping matches, left to right
RECURSIVE findallFrom(_, _, _)
findallAfter(re, text, m) ==
    IF ~m.ok THEN <<>>
    ELSE <<group(text, m, 1)>> \o
         findallFrom(re, text, IF m.end > m.start THEN m.end ELSE m.end + 1)

findallFrom(re, text, from) == findallAfter(re, text, searchFrom(re, text, from))

findall(re, text) == findallFrom(re, text, 1)

\* ------------------------------------------------------------------------
\* The pattern lists of _extract_fields_from_text: each pattern with the text
\* of its source literal (the code tests that text) and its syntax tree
\* ------------------------------------------------------------------------
AlnumDash == Letters \cup Digits \cup {"-"}

DateSep == {"-", "/", "."}

NameChars == Letters \cup Whitespace

license_patterns == <<
    [src |-> <<"a","p","p","l","i","c","a","t","i","o","n","\\","s","*","n","o","\\",".","?","\\","s","*","(","[","a","-","z","0","-","9","\\","-","]","+",")">>,
     re  |-> Cat(<<Lit(s_application), Star(ReSpace), Lit(<<"n","o">>), Opt(Ch(".")),
                   Star(ReSpace), Grp(1, Plus(Cls(AlnumDash)))>>)],
    [src |-> <<"l","i","c","e","n","s","e","\\","s","*","(","?",":","n","o","\\",".","|","n","u","m","b","e","r",")","\\","s","*","[",":","#","]","?","\\","s","*","(","[","a","-","z","0","-","9","\\","-","]","+",")">>,
     re  |-> Cat(<<Lit(s_license), Star(ReSpace),
                   Alt(<<Lit(<<"n","o",".">>), Lit(<<"n","u","m","b","e","r">>)>>),
                   Star(ReSpace), Opt(Cls({":", "#"})), Star(ReSpace),
                   Grp(1, Plus(Cls(AlnumDash)))>>)],
    [src |-> <<"n","o","\\",".","?","\\","s","*","(","[","0","-","9","]","+",")">>,
     re  |-> Cat(<<Lit(<<"n","o">>), Opt(Ch(".")), Star(ReSpace),
                   Grp(1, Plus(ReDigit))>>)] >>

name_patterns == <<
    [src |-> <<"I","[",","," ","]","+","(","[","A","-","Z","a","-","z","\\","s","]","+","?",")","(","?",":",",","|","\\","s","o","f","|","\\","s","d","e","s","i","r","|","\\","s","d","o","\\","b",")">>,
     re  |-> Cat(<<Ch("I"), Plus(Cls({",", " "})), Grp(1, PlusLazy(Cls(NameChars))),
                   Alt(<<Ch(","),
                         Cat(<<ReSpace, Lit(<<"o","f">>)>>),
                         Cat(<<ReSpace, Lit(<<"d","e","s","i","r">>)>>),
                         Cat(<<ReSpace, Lit(<<"d","o">>), WordBoundary>>)>>)>>)],
    [src |-> <<"M","i","s","s","\\","s","+","(","[","A","-","Z","a","-","z","\\","s","]","+","?",")","(","?",":",",","|","\\","s","o","f","|","\\","s","d","o","\\","b",")">>,
     re  |-> Cat(<<Lit(<<"M","i","s","s">>), Plus(ReSpace),
                   Grp(1, PlusLazy(Cls(NameChars))),
                   Alt(<<Ch(","),
                         Cat(<<ReSpace, Lit(<<"o","f">>)>>),
                         Cat(<<ReSpace, Lit(<<"d","o">>), WordBoundary>>)>>)>>)],
    [src |-> <<"M","r","\\",".","?","\\","s","+","(","[","A","-","Z","a","-","z","\\","s","]","+","?",")","(","?",":",",","|","\\","s","o","f","|","\\","s","d","o","\\","b",")">>,
     re  |-> Cat(<<Lit(<<"M","r">>), Opt(Ch(".")), Plus(ReSpace),
                   Grp(1, PlusLazy(Cls(NameChars))),
                   Alt(<<Ch(","),
                         Cat(<<ReSpace, Lit(<<"o","f">>)>>),
                         Cat(<<ReSpace, Lit(<<"d","o">>), WordBoundary>>)>>)>>)] >>

date_patterns == <<
    [src |-> <<"d","a","y","\\","s","+","o","f","\\","s","+","(","[","A","-","Z","a","-","z","]","+",")","\\","s","+","(","\\","d","{","1",",","2","}",")","?",",","?","\\","s","*","(","\\","d","{","4","}",")">>,
     re  |-> Cat(<<Lit(<<"d","a","y">>), Plus(ReSpace), Lit(<<"o","f">>), Plus(ReSpace),
                   Grp(1, Plus(Cls(Letters))), Plus(ReSpace),
                   Opt(Grp(2, Rep(ReDigit, 1, 2, TRUE))), Opt(Ch(",")), Star(ReSpace),
                   Grp(3, Rep(ReDigit, 4, 4, TRUE))>>)],
    [src |-> <<"(","\\","d","{","1",",","2","}",")","[","-","\\","/",".","]","(","\\","d","{","1",",","2","}",")","[","-","\\","/",".","]","(","\\","d","{","4","}",")">>,
     re  |-> Cat(<<Grp(1, Rep(ReDigit, 1, 2, TRUE)), Cls(DateSep),
                   Grp(2, Rep(ReDigit, 1, 2, TRUE)), Cls(DateSep),
                   Grp(3, Rep(ReDigit, 4, 4, TRUE))>>)],
    [src |-> <<"(","\\","d","{","4","}",")","[","-","\\","/",".","]","(","\\","d","{","1",",","2","}",")","[","-","\\","/",".","]","(","\\","d","{","1",",","2","}",")">>,
     re  |-> Cat(<<Grp(1, Rep(ReDigit, 4, 4, TRUE)), Cls(DateSep),
                   Grp(2, Rep(ReDigit, 1, 2, TRUE)), Cls(DateSep),
                   Grp(3, Rep(ReDigit, 1, 2, TRUE))>>)],
    [src |-> <<"(","[","A","-","Z","a","-","z","]","+",")","\\","s","+","(","\\","d","{","1",",","2","}",")",",","?","\\","s","*","(","\\","d","{","4","}",")">>,
     re  |-> Cat(<<Grp(1, Plus(Cls(Letters))), Plus(ReSpace),
                   Grp(2, Rep(ReDigit, 1, 2, TRUE)), Opt(Ch(",")), Star(ReSpace),
                   Grp(3, Rep(ReDigit, 4, 4, TRUE))>>)] >>

\* ------------------------------------------------------------------------
\* TrOCRService._extract_fields_from_text
\* ------------------------------------------------------------------------
EmptyField == [value |-> <<>>, confidence |-> Float(0)]

\* lines 191-198: the first pattern of license_patterns that matches, then break
RECURSIVE license_loop(_, _, _)
license_loop(text, base_confidence, i) ==
    IF i > Len(license_patterns) THEN EmptyField
    ELSE LET match == search(license_patterns[i].re, text)
         IN  IF match.ok
             THEN [value      |-> strip(group(text, match, 1)),
                   confidence |-> FloatAdd(base_confidence, Float(1))]
             ELSE license_loop(text, base_confidence, i + 1)

\* the license loop without its break: every matching pattern overwrites the field
RECURSIVE license_loop_no_break(_, _, _, _)
license_loop_no_break(text, base_confidence, i, field) ==
    IF i > Len(license_patterns) THEN field
    ELSE LET match == search(license_patterns[i].re, text)
         IN  license_loop_no_break(text, base_confidence, i + 1,
                 IF match.ok
                 THEN [value      |-> strip(group(text, match, 1)),
                       confidence |-> FloatAdd(base_confidence, Float(1))]
                 ELSE field)

license_number_field_no_break(text, base_confidence) ==
    license_loop_no_break(text, base_confidence, 1, EmptyField)

license_number_field(text, base_confidence) == license_loop(text, base_confidence, 1)

\* lines 209: re.findall of every name pattern, in pattern-then-match order
name_matches(text) ==
    findall(name_patterns[1].re, text) \o findall(name_patterns[2].re, text)
        \o findall(name_patterns[3].re, text)

\* the names loop without the test `len(name) > 2`
RECURSIVE names_loop_any_length(_, _, _)
names_loop_any_length(matches, i, names) ==
    IF i > Len(matches) THEN names
    ELSE LET name == strip(matches[i])
         IN  IF name \notin Range(names)
             THEN names_loop_any_length(matches, i + 1, Append(names, name))
             ELSE names_loop_any_length(matches, i + 1, names)

\* the names loop without the test `name not in names`
RECURSIVE names_loop_no_dedup(_, _, _)
names_loop_no_dedup(matches, i, names) ==
    IF i > Len(matches) THEN names
    ELSE LET name == strip(matches[i])
         IN  IF Len(name) > 2
             THEN names_loop_no_dedup(matches, i + 1, Append(names, name))
             ELSE names_loop_no_dedup(matches, i + 1, names)

\* lines 210-213: the loop body, over the matches in order
RECURSIVE names_loop(_, _, _)
names_loop(matches, i, names) ==
    IF i > Len(matches) THEN names
    ELSE LET name == strip(matches[i])
         IN  IF Len(name) > 2 /\ name \notin Range(names)
             THEN names_loop(matches, i + 1, Append(names, name))
             ELSE names_loop(matches, i + 1, names)

collect_names(text) == names_loop(name_matches(text), 1, <<>>)

\* lines 215-224
name_spouse_field(names, slot, base_confidence) ==
    IF Len(names) >= slot
    THEN [value |-> names[slot], confidence |-> FloatAdd(base_confidence, Float(1))]
    ELSE EmptyField

\* an f-string's rendering of a value that may be None
str(x) == IF x = None THEN <<"N","o","n","e">> ELSE x

\* lines 237-245: the branch taken for `pattern` and the date string it builds;
\* x.zfill(2) on None raises AttributeError
date_value(pattern, text, match) ==
    LET g1 == group(text, match, 1)
        g2 == group(text, match, 2)
        g3 == group(text, match, 3)
        dash == <<"-">>
    IN  IF contains(pattern.src, <<"d","a","y"," ","o","f">>)
        THEN LET month == g1
                 day   == IF g2 = None \/ g2 = <<>> THEN <<"0","1">> ELSE g2
                 year  == g3
             IN  [raised |-> FALSE,
                  value  |-> str(year) \o dash \o str(month) \o dash \o zfill(day, 2)]
        ELSE IF startswith(pattern.src, <<"(","\\","d","{","4","}",")">>)
        THEN IF g2 = None \/ g3 = None THEN [raised |-> TRUE, value |-> <<>>]
             ELSE [raised |-> FALSE,
                   value  |-> str(g1) \o dash \o zfill(g2, 2) \o dash \o zfill(g3, 2)]
        ELSE IF g1 = None \/ g2 = None THEN [raised |-> TRUE, value |-> <<>>]
             ELSE [raised |-> FALSE,
                   value  |-> str(g3) \o dash \o zfill(g1, 2) \o dash \o zfill(g2, 2)]

\* lines 234-251: the first pattern of date_patterns that matches, then break
RECURSIVE date_loop(_, _, _)
date_loop(text, base_confidence, i) ==
    IF i > Len(date_patterns) THEN [raised |-> FALSE, field |-> EmptyField]
    ELSE LET match == search(date_patterns[i].re, text)
         IN  IF match.ok
             THEN LET d == date_value(date_patterns[i], text, match)
                  IN  [raised |-> d.raised,
                       field  |-> [value      |-> d.value,
                                   confidence |-> FloatAdd(base_confidence, Float(1))]]
             ELSE date_loop(text, base_confidence, i + 1)

marriage_date_field(text, base_confidence) == date_loop(text, base_confidence, 1)

\* the call: either the dict of four fields, or the exception it raises
extract_fields_from_text(text, base_confidence) ==
    LET names == collect_names(text)
        date  == marriage_date_field(text, base_confidence)
    IN  IF date.raised
        THEN [raised |-> TRUE, exception |-> "AttributeError"]
        ELSE [raised |-> FALSE,
              fields |-> [license_number |-> license_number_field(text, base_confidence),
                          name_spouse1   |-> name_spouse_field(names, 1, base_confidence),
                          name_spouse2   |-> name_spouse_field(names, 2, base_confidence),
                          marriage_date  |-> date.field]]

\* ------------------------------------------------------------------------
\* TrOCRService.extract_text_from_image and extract_marriage_license_fields
\* ------------------------------------------------------------------------
TrOCRProcessor == <<"TrOCRProcessor">>

VisionEncoderDecoderModel == <<"VisionEncoderDecoderModel">>

NotLoadedError ==
    <<"T","r","O","C","R"," ","m","o","d","e","l"," ","n","o","t"," ","l","o","a","d","e","d">>

\* extract_text_from_image with the guard written `not processor and not model`
extract_text_from_image_and(proc, mdl, b) ==
    IF proc = None /\ mdl = None
    THEN [text |-> <<>>, confidence |-> Float(0), success |-> FALSE,
          error |-> NotLoadedError]
    ELSE IF b.raises
    THEN [text |-> <<>>, confidence |-> Float(0), success |-> FALSE,
          error |-> b.message]
    ELSE [text       |-> strip(b.generated_text),
          confidence |-> calculate_confidence(b.generated_text),
          success    |-> TRUE,
          error      |-> None]

\* lines 58-107.  `b` is what the image pipeline (PIL, processor, model) does
\* when it is run: it raises with a message, or batch_decode gives a text.
extract_text_from_image(proc, mdl, b) ==
    IF proc = None \/ mdl = None
    THEN [text |-> <<>>, confidence |-> Float(0), success |-> FALSE,
          error |-> NotLoadedError]
    ELSE IF b.raises
    THEN [text |-> <<>>, confidence |-> Float(0), success |-> FALSE,
          error |-> b.message]
    ELSE [text       |-> strip(b.generated_text),
          confidence |-> calculate_confidence(b.generated_text),
          success    |-> TRUE,
          error      |-> None]

\* lines 166-171: the exception of _extract_fields_from_text goes on to the
\* caller; else its dict, with raw_text, success and error added, is returned
with_raw_text(x, text) ==
    IF x.raised
    THEN [kind |-> "raise", value |-> [exception |-> x.exception]]
    ELSE [kind  |-> "return",
          value |-> [license_number |-> x.fields.license_number,
                     name_spouse1   |-> x.fields.name_spouse1,
                     name_spouse2   |-> x.fields.name_spouse2,
                     marriage_date  |-> x.fields.marriage_date,
                     raw_text       |-> text,
                     success        |-> TRUE,
                     error          |-> None]]

\* lines 151-171 without the early return of the failure branch: the fields are
\* extracted whatever `success` says
assemble_without_early_return(transcribed) ==
    with_raw_text(extract_fields_from_text(transcribed.text, transcribed.confidence),
                  transcribed.text)

\* lines 151-171, on the outcome of extract_text_from_image: what the call
\* returns, or that it raises
assemble(transcribed) ==
    IF ~transcribed.success
    THEN [kind  |-> "return",
          value |-> [license_number |-> EmptyField,
                     name_spouse1   |-> EmptyField,
                     name_spouse2   |-> EmptyField,
                     marriage_date  |-> EmptyField,
                     raw_text       |-> transcribed.text,
                     success        |-> FALSE,
                     error          |-> transcribed.error]]
    ELSE with_raw_text(extract_fields_from_text(transcribed.text, transcribed.confidence),
                       transcribed.text)

\* ------------------------------------------------------------------------
\* The texts the engine may produce
\* ------------------------------------------------------------------------
\* a generated text is one of the Scenarios or up to MaxFrags Fragments in a row
MaxFrags == 2

Fragments == {
    <<"a","p","p","l","i","c","a","t","i","o","n"," ","n","o","."," ","A","-","1"," ">>,
    <<"L","i","c","e","n","s","e"," ","N","u","m","b","e","r",":"," ","7","7"," ">>,
    <<"N","o","."," ","5"," ">>,
    <<"I",","," ","J","a","n","e"," ","D","o","e",","," ","o","f"," ">>,
    <<"M","i","s","s"," ","A","n","n"," ","L","e","e",","," ">>,
    <<"M","r"," ","A","l"," ","d","o"," ">>,
    <<"d","a","y"," ","o","f"," ","J","u","n","e"," ","1","9","5","0"," ">>,
    <<"0","6","/","1","5","/","1","9","5","0"," ">> }

ScenarioA == <<>>

ScenarioBlank == <<" "," "," ">>

ScenarioB ==
    <<"m","a","r","r","i","a","g","e"," ","l","i","c","e","n","s","e"," ","a","p","p","l","i","c","a","t","i","o","n"," ","n","o","."," ","1","2","3","4","5">>

ScenarioC ==
    <<"I",","," ","J","a","n","e"," ","D","o","e",","," ","o","f"," ","S","p","r","i","n","g","f","i","e","l","d">>

ScenarioD ==
    <<"1","5","t","h"," ","d","a","y"," ","o","f"," ","J","u","n","e",","," ","1","9","5","0">>

ScenarioE == <<"0","6","/","1","5","/","1","9","5","0">>

DayOfWithDay ==
    <<"d","a","y"," ","o","f"," ","J","u","n","e"," ","1","5",","," ","1","9","5","0">>

DayOfNoDay == <<"d","a","y"," ","o","f"," ","J","u","n","e"," ","1","9","5","0">>

DayOfShortDay ==
    <<"d","a","y"," ","o","f"," ","M","a","y"," ","7"," ","1","9","5","0">>

YearFirst == <<"1","9","5","0","-","6","-","5">>

MonthDayYear == <<"J","u","n","e"," ","1","5",","," ","1","9","5","0">>

Repetitive == <<"x"," ","x"," ","x"," ","x"," ","x"," ","x">>

ShortText == <<"h","i">>

BlankName == <<"M","r"," "," "," ","d","o"," ","i","t">>

BlankNameWithLicense ==
    <<"N","o","."," ","5"," ","M","r"," "," "," ","d","o"," ","i","t">>

ShortLicense == <<"N","o"," ","7">>

ThreeNames ==
    <<"I",","," ","J","a","n","e"," ","D","o","e",","," ","o","f"," ","M","i","s","s"," ","A","n","n"," ","L","e","e",","," ","M","r","."," ","B","o","b"," ","R","a","y",","," ">>

LongText ==
    <<"M","a","r","r","i","a","g","e"," ","L","i","c","e","n","s","e"," ","a","p","p","l","i","c","a","t","i","o","n"," ","N","o","."," ","1","2","3","4","5"," ","I",","," ","J","a","n","e"," ","D","o","e",","," ","o","f"," ","S","p","r","i","n","g","f","i","e","l","d">>

Scenarios ==
    {ScenarioA, ScenarioBlank, ScenarioB, ScenarioC, ScenarioD, ScenarioE,
     DayOfWithDay, DayOfNoDay, DayOfShortDay, YearFirst, MonthDayYear, Repetitive, ShortText,
     ShortLicense, BlankName, BlankNameWithLicense, ThreeNames, LongText}

RECURSIVE FragTexts(_)
FragTexts(n) ==
    IF n = 0 THEN {<<>>}
    ELSE FragTexts(n - 1) \cup {t \o f : t \in FragTexts(n - 1), f \in Fragments}

Corpus == Scenarios \cup FragTexts(MaxFrags)

\* the messages of the exceptions the image pipeline may raise
EngineErrors == {
    <<"c","a","n","n","o","t"," ","i","d","e","n","t","i","f","y"," ","i","m","a","g","e"," ","f","i","l","e">>,
    <<"C","U","D","A"," ","o","u","t"," ","o","f"," ","m","e","m","o","r","y">> }

EngineBehaviours ==
    {[raises |-> TRUE, message |-> m, generated_text |-> <<>>] : m \in EngineErrors}
    \cup {[raises |-> FALSE, message |-> <<>>, generated_text |-> g] : g \in Corpus}

\* before any extract call: no engine run, no outcome, no result
NoEngine == [raises |-> TRUE, message |-> <<>>, generated_text |-> <<>>]

NoOutcome == [text |-> <<>>, confidence |-> Float(0), success |-> FALSE, error |-> None]

NoResult == [kind |-> "none", value |-> [exception |-> "none"]]

\* extract_marriage_license_fields (lines 149-171) for each state of the service
\* and each behaviour of the engine: the outcome of extract_text_from_image and
\* what the call then returns or raises
Pipeline ==
    [proc \in {None, TrOCRProcessor}, mdl \in {None, VisionEncoderDecoderModel},
     b \in EngineBehaviours |->
        LET o == extract_text_from_image(proc, mdl, b)
        IN  [outcome |-> o, result |-> assemble(o)]]

\* ------------------------------------------------------------------------
\* The operations of the service
\* ------------------------------------------------------------------------
vars == <<processor, model, last, loaded, engine, outcome, result>>

\* lines 21-27
Init ==
    /\ processor = None
    /\ model = None
    /\ last = "__init__"
    /\ loaded = FALSE
    /\ engine = NoEngine
    /\ outcome = NoOutcome
    /\ result = NoResult

\* lines 29-40: from_pretrained of the processor, from_pretrained of the model
\* or model.to(device) may raise; `fails` is the step that does
load_model(fails) ==
    /\ processor' = IF fails = "processor" THEN processor ELSE TrOCRProcessor
    /\ model' = IF fails \in {"processor", "model"} THEN model
                ELSE VisionEncoderDecoderModel
    /\ loaded' = (fails = "nothing")
    /\ last' = "load_model"
    /\ UNCHANGED <<engine, outcome, result>>

\* lines 142-171
extract_marriage_license_fields(b) ==
    /\ last' = "extract"
    /\ engine' = b
    /\ outcome' = Pipeline[processor, model, b].outcome
    /\ result' = Pipeline[processor, model, b].result
    /\ UNCHANGED <<processor, model, loaded>>

Next ==
    \/ \E fails \in {"processor", "model", "device", "nothing"} : load_model(fails)
    \/ \E b \in EngineBehaviours : extract_marriage_license_fields(b)

Spec == Init /\ [][Next]_vars

\* ------------------------------------------------------------------------
\* The same method with extract_text_from_image stubbed: the stub returns the
\* dict the initial state holds in `outcome`, and lines 151-171 run on it
\* ------------------------------------------------------------------------
BaseConfidences == {Float(0), Float(3), Float(5), Float(9), Float(10)}

Outcomes ==
    {[text |-> t, confidence |-> c, success |-> TRUE, error |-> None] :
        t \in Corpus, c \in BaseConfidences}
    \cup {[text |-> t, confidence |-> c, success |-> FALSE, error |-> m] :
        t \in Corpus, c \in BaseConfidences, m \in EngineErrors \cup {NotLoadedError}}

StubInit ==
    /\ processor = None
    /\ model = None
    /\ last = "__init__"
    /\ loaded = FALSE
    /\ engine = NoEngine
    /\ outcome \in Outcomes
    /\ result = NoResult

extract_with_stub ==
    /\ last = "__init__"
    /\ last' = "extract"
    /\ result' = assemble(outcome)
    /\ UNCHANGED <<processor, model, loaded, engine, outcome>>

StubNext == extract_with_stub

StubSpec == StubInit /\ [][StubNext]_vars

\* ------------------------------------------------------------------------
\* Properties
\* ------------------------------------------------------------------------
Called == last = "extract"

Returned == Called /\ result.kind = "return"

Zero == [t |-> 0, e |-> 0]

Empty == [value |-> <<>>, confidence |-> Zero]

FieldsOf(r) == {r.license_number, r.name_spouse1, r.name_spouse2, r.marriage_date}

Blank(text) == \A i \in DOMAIN text : text[i] \in Whitespace

\* base_confidence + 0.1 for the base confidence of the last outcome
Boosted == FloatAdd(outcome.confidence, Float(1))

\* C1: the core never raises: every extract call returns a record and ends
\* Failed (success false, error set) or Extracted (success true, error null).
C1_CoreNeverRaises ==
    Called =>
        /\ result.kind = "return"
        /\ \/ ~outcome.success /\ ~result.value.success /\ result.value.error # None
           \/ outcome.success /\ result.value.success /\ result.value.error = None

\* C2: when the transcription outcome has success false, the call returns the
\* four fields empty with confidence 0.0, raw_text the outcome's text, success
\* false and error the outcome's error, whatever the text is; the text is never
\* handed to the field extractor (a text on which extraction raises still
\* gives this record).
C2_FailureShortCircuit ==
    (Called /\ ~outcome.success) =>
        result = [kind  |-> "return",
                  value |-> [license_number |-> Empty,
                             name_spouse1   |-> Empty,
                             name_spouse2   |-> Empty,
                             marriage_date  |-> Empty,
                             raw_text       |-> outcome.text,
                             success        |-> FALSE,
                             error          |-> outcome.error]]

\* a failed outcome whose text makes the field extractor raise when it is run
C2_Witness ==
    /\ Returned
    /\ ~outcome.success
    /\ outcome.text = DayOfNoDay
    /\ extract_fields_from_text(DayOfNoDay, outcome.confidence).raised
    /\ result.value.raw_text = DayOfNoDay

\* C3: in every record returned, a field with an empty value has confidence
\* 0.0, and a field whose confidence is base_confidence + 0.1 has a non-empty
\* value.
C3_FieldValuePairing ==
    Returned =>
        \A f \in FieldsOf(result.value) :
            /\ f.value = <<>> => f.confidence = Zero
            /\ (outcome.success /\ f.confidence = Boosted) => f.value # <<>>

\* a name match that is blank after trimming, next to a field that was found
C3_Witness ==
    /\ Returned
    /\ outcome.success
    /\ \E i \in DOMAIN name_matches(outcome.text) :
           strip(name_matches(outcome.text)[i]) = <<>>
    /\ \E f \in FieldsOf(result.value) : f = Empty
    /\ \E f \in FieldsOf(result.value) : f.value # <<>> /\ f.confidence = Boosted

\* C4: _calculate_confidence returns a value in [0.0, 1.0] for every text, and
\* exactly 0.0 for an empty or all-whitespace text.
C4_ConfidenceBounds ==
    (Called /\ outcome.success) =>
        /\ FloatLe(Zero, outcome.confidence)
        /\ FloatLe(outcome.confidence, Float(10))
        /\ Blank(engine.generated_text) => outcome.confidence = Zero

\* a text whose adjustments add up to more than 1.0, returned as 1.0
C4_Witness ==
    /\ Called
    /\ outcome.success
    /\ FloatLt(Float(10), confidence_sum(engine.generated_text))
    /\ outcome.confidence = Float(10)

\* C5: Scenario D: on "15th day of June, 1950" date pattern 1 matches and
\* marriage_date is {"1950-June-01", base_confidence + 0.1}.
C5_ScenarioD ==
    (Called /\ outcome.success /\ outcome.text = ScenarioD) =>
        /\ search(date_patterns[1].re, ScenarioD).ok
        /\ result.kind = "return"
        /\ result.value.marriage_date =
               [value      |-> <<"1","9","5","0","-","J","u","n","e","-","0","1">>,
                confidence |-> Boosted]

\* C6: when date pattern 1 is the one that matches, marriage_date.value is
\* "<Year>-<MonthWord>-<Day>", the day padded to 2 digits, "01" when the day
\* group is absent.
C6_DateForm1 ==
    (Called /\ outcome.success /\ search(date_patterns[1].re, outcome.text).ok) =>
        LET m     == search(date_patterns[1].re, outcome.text)
            month == group(outcome.text, m, 1)
            day   == group(outcome.text, m, 2)
            year  == group(outcome.text, m, 3)
        IN  /\ result.kind = "return"
            /\ result.value.marriage_date.value =
                   year \o <<"-">> \o month \o <<"-">>
                        \o (IF day = None THEN <<"0","1">> ELSE zfill(day, 2))

\* the license patterns that match somewhere in the text
LicenseHits(text) ==
    {i \in DOMAIN license_patterns : search(license_patterns[i].re, text).ok}

FirstHit(text) == CHOOSE i \in LicenseHits(text) : \A j \in LicenseHits(text) : i <= j

\* C7: license_number comes from the lowest-numbered license pattern that
\* matches anywhere in the text, wherever the others match: its value is that
\* pattern's captured token and its confidence base_confidence + 0.1, not
\* clamped (base 0.9 gives 1.0 on Scenario B, base 1.0 gives 1.1); with no
\* match it is {"", 0.0}.
C7_LicensePriority ==
    (Returned /\ outcome.success) =>
        LET text == outcome.text
            lic  == result.value.license_number
        IN  /\ LicenseHits(text) = {} => lic = Empty
            /\ LicenseHits(text) # {} =>
                   lic = [value      |-> group(text, search(license_patterns[FirstHit(text)].re,
                                                            text), 1),
                          confidence |-> Boosted]
            /\ text = ScenarioB =>
                   /\ outcome.confidence = Float(9)
                   /\ lic = [value |-> <<"1","2","3","4","5">>, confidence |-> Float(10)]
            /\ (LicenseHits(text) # {} /\ outcome.confidence = Float(10)) =>
                   lic.confidence = Float(11)

\* pattern 3 matches before pattern 1 does, pattern 1 gives the value, and the
\* confidence is 1.1
C7_Witness ==
    /\ Returned
    /\ outcome.success
    /\ {1, 3} \subseteq LicenseHits(outcome.text)
    /\ search(license_patterns[3].re, outcome.text).start
           < search(license_patterns[1].re, outcome.text).start
    /\ result.value.license_number.value
           = group(outcome.text, search(license_patterns[1].re, outcome.text), 1)
    /\ result.value.license_number.value
           # group(outcome.text, search(license_patterns[3].re, outcome.text), 1)
    /\ result.value.license_number.confidence = Float(11)

\* the name candidates, trimmed, in pattern-then-match order
Trimmed(text) == [i \in DOMAIN name_matches(text) |-> strip(name_matches(text)[i])]

\* the candidates that are kept: longer than 2 and not seen earlier
KeptAt(text) ==
    {i \in DOMAIN Trimmed(text) :
        /\ Len(Trimmed(text)[i]) > 2
        /\ \A j \in 1..(i - 1) : Trimmed(text)[j] # Trimmed(text)[i]}

\* the k-th kept candidate as a field, or the empty field when there is none
Slot(text, k) ==
    IF Cardinality(KeptAt(text)) < k THEN Empty
    ELSE LET i == CHOOSE a \in KeptAt(text) :
                      Cardinality({c \in KeptAt(text) : c < a}) = k - 1
         IN  [value |-> Trimmed(text)[i], confidence |-> Boosted]

\* C8: name_spouse1 and name_spouse2 are the first and the second of the kept
\* candidates (trimmed, longer than 2, duplicates dropped, order kept), each
\* with base_confidence + 0.1, and {"", 0.0} when there is no such candidate;
\* so name_spouse2 is set only next to a different, non-empty name_spouse1,
\* and Scenario C gives "Jane Doe" and an empty second slot.
C8_NameSlots ==
    (Returned /\ outcome.success) =>
        LET s1 == result.value.name_spouse1
            s2 == result.value.name_spouse2
        IN  /\ s1 = Slot(outcome.text, 1)
            /\ s2 = Slot(outcome.text, 2)
            /\ s2.value # <<>> => (s1.value # <<>> /\ s1.value # s2.value)
            /\ outcome.text = ScenarioC =>
                   /\ s1.value = <<"J","a","n","e"," ","D","o","e">>
                   /\ s2 = Empty

\* a repeated candidate is dropped and the second slot stays empty
C8_Witness ==
    /\ Returned
    /\ outcome.success
    /\ \E i, j \in DOMAIN Trimmed(outcome.text) :
           i < j /\ Trimmed(outcome.text)[i] = Trimmed(outcome.text)[j]
                 /\ Len(Trimmed(outcome.text)[i]) > 2
    /\ result.value.name_spouse1.value # <<>>
    /\ result.value.name_spouse2 = Empty

NotLoadedResult ==
    [kind  |-> "return",
     value |-> [license_number |-> Empty,
                name_spouse1   |-> Empty,
                name_spouse2   |-> Empty,
                marriage_date  |-> Empty,
                raw_text       |-> <<>>,
                success        |-> FALSE,
                error          |-> <<"T","r","O","C","R"," ","m","o","d","e","l"," ",
                                     "n","o","t"," ","l","o","a","d","e","d">>]]

\* C9: an extract call made while the processor or the model is unset returns
\* success false, error "TrOCR model not loaded", raw_text "" and four empty
\* fields, and leaves the processor and the model as they were.
C9_EngineUnavailable ==
    [][(last' = "extract" /\ (processor = None \/ model = None)) =>
           /\ result' = NotLoadedResult
           /\ processor' = processor
           /\ model' = model]_vars

\* after a load that set the processor and failed on the model, a call whose
\* engine would have produced Scenario B
C9_Witness ==
    /\ Called
    /\ processor = TrOCRProcessor
    /\ model = None
    /\ ~loaded
    /\ ~engine.raises
    /\ engine.generated_text = ScenarioB
    /\ result = NotLoadedResult

\* C10: for a text that is not blank _calculate_confidence returns at least
\* 0.3: the two penalties never apply together, the repetition penalty only
\* comes with the length > 10 bonus, the sum before clamping lies in
\* [0.3, 1.1], and only the upper clamp changes it.
C10_NonBlankAtLeast03 ==
    (Called /\ outcome.success /\ ~Blank(engine.generated_text)) =>
        LET text       == engine.generated_text
            sum        == confidence_sum(text)
            short      == Len(text) < 5
            repetitive == Cardinality(Range(split(text))) < 3 /\ Len(split(text)) > 5
        IN  /\ FloatLe(Float(3), outcome.confidence)
            /\ ~(short /\ repetitive)
            /\ repetitive => Len(text) > 10
            /\ FloatLe(Float(3), sum)
            /\ FloatLe(sum, Float(11))
            /\ outcome.confidence = (IF FloatLt(Float(10), sum) THEN Float(10) ELSE sum)

\* the short text "hi": 0.5 - 0.2, returned as 0.3
C10_Witness ==
    /\ Called
    /\ outcome.success
    /\ engine.generated_text = ShortText
    /\ outcome.confidence = Float(3)

====
